---- MODULE Spec2Model ----
(***************************************************************************)
(* Model of the auth router (register, login, refresh, logout) of the      *)
(* Colbin authentication service: src/unnamed/part_001.                    *)
(*                                                                         *)
(* Every `await prisma...` of a handler is one atomic store step; the      *)
(* handlers of different requests interleave between those steps.  Time is *)
(* counted in days (the refresh-token lifetimes are whole days).           *)
(***************************************************************************)
EXTENDS Integers, Sequences, FiniteSets, TLC

(* ---------------------------- bounds ---------------------------------- *)
\* requests sent in one behaviour, by all clients together
MaxRequests == 3
\* requests of the second client beside the end-to-end script
MaxOtherRequests == 2

(* ------------------------ program constants --------------------------- *)
RegisterDefaultExpDays == 30
LoginDefaultExpDays == 7
RefreshDefaultExpDays == 7
CookieDefaultExpDays == 30

\* concurrent clients, each with at most one request in flight
Procs == {1, 2}

\* request inputs; Missing is an absent (falsy) field
Missing == ""
Emails == {"a@x.com", "b@x.com"}
Passwords == {"P@ssw0rd!", "wrong"}
Names == {"A"}
\* the bodies of Register and Login requests: every field present, or one absent
RegisterInputs ==
    (Emails \X {"P@ssw0rd!"} \X Names)
      \cup {<<Missing, "P@ssw0rd!", "A">>, <<"a@x.com", Missing, "A">>,
            <<"a@x.com", "P@ssw0rd!", Missing>>}
LoginInputs ==
    (Emails \X Passwords) \cup {<<Missing, "P@ssw0rd!">>, <<"a@x.com", Missing>>}
\* the days at which the clock is read again
TimePoints == {7, 30}

\* process.env.REFRESH_TOKEN_EXP_DAYS: unset, or a number of days
EnvUnset == 0
EnvChoices == {EnvUnset}

\* refresh secrets: 1, 2, ... are the values crypto.randomBytes(40) yields,
\* UnknownSecret is a secret the server never issued, NoSecret an absent cookie
UnknownSecret == 0
NoSecret == -1
NoUser == 0
NoToken == 0
NoStatus == 0
Never == -1

VARIABLES users, tokens, now, env, nextSecret, started,
          pc, req, existing, resp, rotated, step,
          gate, client

vars == <<users, tokens, now, env, nextSecret, started,
          pc, req, existing, resp, rotated, step, gate, client>>

\* the state of the auth router and its store
server == <<users, tokens, now, env, nextSecret, started,
            pc, req, existing, resp, rotated, step>>

\* the state outside the auth router: the access-token check and the browser
outside == <<gate, client>>

(* ------------------------- pure functions ----------------------------- *)
\* faulty variant: the secret is kept as it is
StoredAsIs(s) == <<"plain", s>>

\* crypto.createHash('sha256').update(s).digest('hex')
Sha256(s) == <<"sha256", s>>

\* hashPassword / verifyPassword of ../utils/passwordHash (argon2)
hashPassword(password) == <<"argon2", password>>

verifyPassword(hashed, password) == hashed = hashPassword(password)

\* signAccessToken(userId, role) of ../utils/jwt
signAccessToken(userId, role) == [sub |-> userId, role |-> role, iat |-> now]

NoAccessToken == [sub |-> NoUser, role |-> "", iat |-> 0]

\* parseInt(process.env.REFRESH_TOKEN_EXP_DAYS || dflt)
ExpDays(dflt) == IF env = EnvUnset THEN dflt ELSE env

(* --------------------------- store queries ---------------------------- *)
\* prisma.user.findUnique({ where: { email } }): the user's id, or NoUser
findUniqueUser(email) ==
    IF \E i \in 1..Len(users) : users[i].email = email
    THEN CHOOSE i \in 1..Len(users) : users[i].email = email
    ELSE NoUser

\* faulty variant: the lookup forgets the hash and matches any record not revoked
MatchesAnyActive(t, tokenHash) == ~t.revoked

\* faulty variant: the lookup forgets revoked: false and matches on the hash alone
MatchesHash(t, tokenHash) == t.tokenHash = tokenHash

\* the where clause { tokenHash, revoked: false }
MatchesActive(t, tokenHash) == t.tokenHash = tokenHash /\ ~t.revoked

\* prisma.refreshToken.findFirst({ where: { tokenHash, revoked: false } })
findFirstToken(tokenHash) ==
    IF \E i \in 1..Len(tokens) : MatchesActive(tokens[i], tokenHash)
    THEN CHOOSE i \in 1..Len(tokens) : MatchesActive(tokens[i], tokenHash)
    ELSE NoToken

(* ----------------------------- responses ------------------------------ *)
\* the JSON body (status, message, accessToken, refreshToken, userId) and the
\* Set-Cookie headers of a response
EmptyResp == [status |-> NoStatus, message |-> "", accessToken |-> NoAccessToken,
              refreshToken |-> NoSecret, userId |-> NoUser,
              cookieAT |-> NoAccessToken, cookieRT |-> NoSecret, httpOnly |-> FALSE,
              rtMaxAge |-> 0, clearAT |-> FALSE, clearRT |-> FALSE]

\* res.status(s).json({ message })
JsonMessage(r, s, m) == [r EXCEPT !.status = s, !.message = m]

\* faulty variant: the handler has no catch, the fault escapes and nothing is
\* written to res
Uncaught(r) == r

\* catch (error) { console.error(...); res.status(500).json({ message }) }
Caught(r) == JsonMessage(r, 500, "Internal server error")

\* what a Refresh that presents an unknown or revoked secret is answered:
\* res.status(401).json({ message: 'Invalid refresh token' })
InvalidRefreshToken == JsonMessage(EmptyResp, 401, "Invalid refresh token")

\* res.cookie('accessToken', ...) and res.cookie('refreshToken', ...), both
\* with httpOnly: true
SetCookies(r, accessToken, refreshToken, days) ==
    [r EXCEPT !.cookieAT = accessToken, !.cookieRT = refreshToken, !.httpOnly = TRUE,
              !.rtMaxAge = days]

\* faulty variant: the refresh secret is returned in the body as well
TokenBodyWithRefresh(r, s, accessToken, refreshToken) ==
    [r EXCEPT !.status = s, !.accessToken = accessToken, !.refreshToken = refreshToken]

\* res.status(s).json({ accessToken, ... }): the handler's refreshToken is not
\* put in the body
TokenBody(r, s, accessToken, refreshToken) ==
    [r EXCEPT !.status = s, !.accessToken = accessToken]

EmptyReq == [op |-> "", email |-> "", password |-> "", name |-> "", rt |-> NoSecret]

\* no access token has been presented for validation yet; the clock is in
\* seconds
NoCheck == [clock |-> 0, sub |-> NoUser, exp |-> 0, sig |-> <<"hs256", NoUser, 0>>,
            issuedAt |-> 0, tampered |-> FALSE, verdict |-> ""]

\* the page has loaded: window.fetch is the browser's, no call is running
PageLoaded == [installed |-> FALSE, call |-> "", url |-> "", through |-> FALSE,
               at |-> "idle", status |-> NoStatus, refreshCalls |-> 0, retries |-> 0,
               calls |-> 0]

Init ==
    /\ users = <<>>
    /\ tokens = <<>>
    /\ now = 0
    /\ env \in EnvChoices
    /\ nextSecret = 1
    /\ started = 0
    /\ pc = [p \in Procs |-> "idle"]
    /\ req = [p \in Procs |-> EmptyReq]
    /\ existing = [p \in Procs |-> 0]
    /\ resp = [p \in Procs |-> EmptyResp]
    /\ rotated = {}
    /\ step = 0
    /\ gate = NoCheck
    /\ client = PageLoaded

\* the request enters its handler, once the client's previous one is answered
Accept(p, r) ==
    /\ pc[p] \in {"idle", "done"}
    /\ req' = [req EXCEPT ![p] = r]
    /\ started' = started + 1

\* the handler's response leaves the server
Respond(p, r) ==
    /\ pc' = [pc EXCEPT ![p] = "done"]
    /\ resp' = [resp EXCEPT ![p] = r]
    /\ UNCHANGED outside

\* control moves to the handler's next store call
Goto(p, label, r) ==
    /\ pc' = [pc EXCEPT ![p] = label]
    /\ resp' = [resp EXCEPT ![p] = r]
    /\ UNCHANGED outside

\* the data of prisma.refreshToken.create: { tokenHash, userId, expiresAt, ip, userAgent }
NewToken(p, tokenHash, userId, days) ==
    [tokenHash |-> tokenHash, userId |-> userId, expiresAt |-> now + days,
     revoked |-> FALSE, ip |-> p]

\* faulty variant: a new session ends the user's other sessions
CreateTokenSingleSession(t) ==
    Append([i \in 1..Len(tokens) |->
              IF tokens[i].userId = t.userId
              THEN [tokens[i] EXCEPT !.revoked = TRUE]
              ELSE tokens[i]], t)

\* prisma.refreshToken.create: one more record, the others untouched
CreateToken(t) == Append(tokens, t)

(* ------------------------- POST /auth/register ------------------------ *)
\* the letters of the email in lower case
Lower(email) == IF email = "A@x.com" THEN "a@x.com" ELSE email

\* the unique index on User.email that findUnique({ where: { email } }) needs;
\* it compares without regard to letter case
EmailTaken(email) == \E i \in 1..Len(users) : Lower(users[i].email) = Lower(email)

\* validation and the existence check
RegisterFind(p, email, password, name) ==
    /\ Accept(p, [EmptyReq EXCEPT !.op = "register", !.email = email,
                                  !.password = password, !.name = name])
    /\ IF email = Missing \/ password = Missing \/ name = Missing
       THEN Respond(p, JsonMessage(EmptyResp, 400, "Email, password, and name are required"))
       ELSE IF findUniqueUser(email) # NoUser
       THEN Respond(p, JsonMessage(EmptyResp, 409, "User already exists with the email"))
       ELSE Goto(p, "register_create", EmptyResp)
    /\ UNCHANGED <<users, tokens, now, env, nextSecret, existing, rotated>>

\* faulty variant: the handler swallows the failed create and carries on with the
\* user that holds the email
CreateFailedContinue(p) ==
    /\ Goto(p, "register_token", resp[p])
    /\ existing' = [existing EXCEPT ![p] = findUniqueUser(req[p].email)]
    /\ UNCHANGED users

\* prisma.user.create threw: the catch logs and answers 500
CreateFailed(p) ==
    /\ Respond(p, Caught(resp[p]))
    /\ UNCHANGED <<users, existing>>

\* prisma.user.create; a duplicate email violates the unique index and create
\* throws
RegisterCreate(p) ==
    /\ pc[p] = "register_create"
    /\ IF EmailTaken(req[p].email)
       THEN CreateFailed(p)
       ELSE /\ users' = Append(users, [email |-> req[p].email,
                                       hashedPassword |-> hashPassword(req[p].password),
                                       role |-> "user", lastLoginAt |-> Never])
            /\ existing' = [existing EXCEPT ![p] = Len(users) + 1]
            /\ Goto(p, "register_token", resp[p])
    /\ UNCHANGED <<tokens, now, env, nextSecret, started, req, rotated, step>>

\* mint the tokens, store the refresh-token record, answer 201
RegisterToken(p) ==
    /\ pc[p] = "register_token"
    /\ LET accessToken == signAccessToken(existing[p], "user")
           refreshToken == nextSecret
       IN /\ tokens' = CreateToken(NewToken(p, Sha256(refreshToken), existing[p],
                                            ExpDays(RegisterDefaultExpDays)))
          /\ nextSecret' = nextSecret + 1
          /\ Respond(p, [TokenBody(SetCookies(resp[p], accessToken, refreshToken,
                                              ExpDays(CookieDefaultExpDays)),
                                   201, accessToken, refreshToken)
                           EXCEPT !.userId = existing[p]])
    /\ UNCHANGED <<users, now, env, started, req, existing, rotated, step>>

(* --------------------------- POST /auth/login ------------------------- *)
\* faulty variant: the two failures are told apart
UserNotFound == JsonMessage(EmptyResp, 404, "User not found")

\* if (!user): 401
NoSuchUser == JsonMessage(EmptyResp, 401, "Invalid email or password")

\* if (!isPasswordValid): 401
WrongPassword == JsonMessage(EmptyResp, 401, "Invalid email or password")

\* faulty variant: the result of verifyPassword is read the wrong way round
PasswordValidInverted(user, password) == ~verifyPassword(users[user].hashedPassword, password)

\* isPasswordValid = await verifyPassword(user.hashedPassword, password)
isPasswordValid(user, password) == verifyPassword(users[user].hashedPassword, password)

\* validation, the lookup by email and the password check
LoginFind(p, email, password) ==
    /\ Accept(p, [EmptyReq EXCEPT !.op = "login", !.email = email, !.password = password])
    /\ LET user == findUniqueUser(email)
       IN IF email = Missing \/ password = Missing
          THEN /\ Respond(p, JsonMessage(EmptyResp, 400, "Email and password are required"))
               /\ UNCHANGED existing
          ELSE IF user = NoUser
          THEN /\ Respond(p, NoSuchUser)
               /\ UNCHANGED existing
          ELSE IF ~isPasswordValid(user, password)
          THEN /\ Respond(p, WrongPassword)
               /\ UNCHANGED existing
          ELSE /\ Goto(p, "login_token", EmptyResp)
               /\ existing' = [existing EXCEPT ![p] = user]
    /\ UNCHANGED <<users, tokens, now, env, nextSecret, rotated>>

\* mint the tokens, store the refresh-token record, set the cookies on res
LoginToken(p) ==
    /\ pc[p] = "login_token"
    /\ LET accessToken == signAccessToken(existing[p], users[existing[p]].role)
           refreshToken == nextSecret
       IN /\ tokens' = CreateToken(NewToken(p, Sha256(refreshToken), existing[p],
                                            ExpDays(LoginDefaultExpDays)))
          /\ nextSecret' = nextSecret + 1
          /\ Goto(p, "login_update",
                  SetCookies(resp[p], accessToken, refreshToken,
                             ExpDays(CookieDefaultExpDays)))
    /\ UNCHANGED <<users, now, env, started, req, existing, rotated, step>>

\* prisma.user.update({ data: { lastLoginAt } }), then answer 200 with the
\* access token and the user in the body
LoginUpdate(p) ==
    /\ pc[p] = "login_update"
    /\ users' = [users EXCEPT ![existing[p]].lastLoginAt = now]
    /\ Respond(p, [TokenBody(resp[p], 200, resp[p].cookieAT, resp[p].cookieRT)
                     EXCEPT !.userId = existing[p]])
    /\ UNCHANGED <<tokens, now, env, nextSecret, started, req, existing, rotated, step>>

(* -------------------------- POST /auth/refresh ------------------------ *)
\* faulty variant: a record is still good on the very day it expires
IsPastExpiry(t) == t.expiresAt < now

\* existing.expiresAt.getTime() <= Date.now()
IsExpired(t) == t.expiresAt <= now

\* the cookie check, the lookup of the presented secret and the expiry check
RefreshFind(p, rt) ==
    /\ Accept(p, [EmptyReq EXCEPT !.op = "refresh", !.rt = rt])
    /\ LET found == findFirstToken(Sha256(rt))
       IN IF rt = NoSecret
          THEN /\ Respond(p, JsonMessage(EmptyResp, 401, "No refresh token"))
               /\ UNCHANGED existing
          ELSE IF found = NoToken
          THEN /\ Respond(p, InvalidRefreshToken)
               /\ UNCHANGED existing
          ELSE /\ existing' = [existing EXCEPT ![p] = found]
               /\ IF IsExpired(tokens[found])
                  THEN Goto(p, "refresh_revoke", EmptyResp)
                  ELSE Goto(p, "refresh_rotate", EmptyResp)
    /\ UNCHANGED <<users, tokens, now, env, nextSecret, rotated>>

\* the where clause of the expiry branch: { id: existing.id }
RevokeWhere(i, id, tokenHash) == i = id

\* expired: prisma.refreshToken.update(...revoked: true), clear the cookie, 401
RefreshRevoke(p) ==
    /\ pc[p] = "refresh_revoke"
    /\ tokens' = [i \in 1..Len(tokens) |->
                    IF RevokeWhere(i, existing[p], Sha256(req[p].rt))
                    THEN [tokens[i] EXCEPT !.revoked = TRUE]
                    ELSE tokens[i]]
    /\ Respond(p, [JsonMessage(resp[p], 401, "Refresh token expired")
                     EXCEPT !.clearRT = TRUE])
    /\ UNCHANGED <<users, now, env, nextSecret, started, req, existing, rotated, step>>

\* faulty variant: the rotation is a plain write to the record that was read
RotateWhereById(i, id, tokenHash) == i = id

\* the where clause of the rotation: { id: existing.id, tokenHash, revoked: false }
RotateWhere(i, id, tokenHash) == i = id /\ MatchesActive(tokens[i], tokenHash)

\* faulty variant: the rotation stores the new secret in a new record and leaves
\* the old record as it was
RotateByAppend(p, hit, newHash, days) ==
    IF hit = {}
    THEN tokens
    ELSE Append(tokens, NewToken(p, newHash, tokens[CHOOSE i \in hit : TRUE].userId, days))

\* the data of the updateMany, written in place to the records that match:
\* { tokenHash: newHash, expiresAt, ip, userAgent }
RotateRecords(p, hit, newHash, days) ==
    [i \in 1..Len(tokens) |->
       IF i \in hit
       THEN [tokens[i] EXCEPT !.tokenHash = newHash, !.expiresAt = now + days, !.ip = p]
       ELSE tokens[i]]

\* prisma.refreshToken.updateMany: the conditional rotate, then 200 or 401
RefreshRotate(p) ==
    /\ pc[p] = "refresh_rotate"
    /\ LET newRefreshToken == nextSecret
           tokenHash == Sha256(req[p].rt)
           expDays == ExpDays(RefreshDefaultExpDays)
           hit == {i \in 1..Len(tokens) : RotateWhere(i, existing[p], tokenHash)}
           accessToken == signAccessToken(tokens[existing[p]].userId,
                                          users[tokens[existing[p]].userId].role)
       IN /\ nextSecret' = nextSecret + 1
          /\ tokens' = RotateRecords(p, hit, Sha256(newRefreshToken), expDays)
          /\ IF hit = {}
             THEN /\ Respond(p, JsonMessage(resp[p], 401,
                                            "Invalid or already rotated refresh token"))
                  /\ UNCHANGED rotated
             ELSE /\ Respond(p, TokenBody(SetCookies(resp[p], accessToken, newRefreshToken,
                                                     expDays),
                                          200, accessToken, newRefreshToken))
                  /\ rotated' = rotated \cup {<<req[p].rt, newRefreshToken>>}
    /\ UNCHANGED <<users, now, env, started, req, existing, step>>

(* --------------------------- POST /auth/logout ------------------------ *)
\* revoke the matching record if a secret is presented, clear both cookies, 200
Logout(p, rt) ==
    /\ Accept(p, [EmptyReq EXCEPT !.op = "logout", !.rt = rt])
    /\ tokens' = [i \in 1..Len(tokens) |->
                    IF rt # NoSecret /\ MatchesActive(tokens[i], Sha256(rt))
                    THEN [tokens[i] EXCEPT !.revoked = TRUE]
                    ELSE tokens[i]]
    /\ Respond(p, [JsonMessage(EmptyResp, 200, "Logged out successfully")
                     EXCEPT !.clearAT = TRUE, !.clearRT = TRUE])
    /\ UNCHANGED <<users, now, env, nextSecret, existing, rotated>>

\* the refresh secrets a caller can present: every secret issued so far, one
\* never issued, or none
Presentable == (1..(nextSecret - 1)) \cup {UnknownSecret, NoSecret}

\* the wall clock advances to day t
Tick(t) ==
    /\ t > now
    /\ now' = t
    /\ UNCHANGED <<users, tokens, env, nextSecret, started, pc, req, existing, resp,
                   rotated, step>>
    /\ UNCHANGED outside

(* ------------------------------ clients ------------------------------- *)
\* a client sends a request of its choice
SendRegister(p) ==
    /\ started < MaxRequests
    /\ \E in \in RegisterInputs : RegisterFind(p, in[1], in[2], in[3])
    /\ UNCHANGED step

SendLogin(p) ==
    /\ started < MaxRequests
    /\ \E in \in LoginInputs : LoginFind(p, in[1], in[2])
    /\ UNCHANGED step

SendRefresh(p) ==
    /\ started < MaxRequests
    /\ \E rt \in Presentable : RefreshFind(p, rt)
    /\ UNCHANGED step

SendLogout(p) ==
    /\ started < MaxRequests
    /\ \E rt \in Presentable : Logout(p, rt)
    /\ UNCHANGED step

\* a handler in flight takes its next store step
Handle(p) ==
    \/ RegisterCreate(p)
    \/ RegisterToken(p)
    \/ LoginToken(p)
    \/ LoginUpdate(p)
    \/ RefreshRevoke(p)
    \/ RefreshRotate(p)

Next ==
    \/ \E t \in TimePoints : Tick(t)
    \/ \E p \in Procs : SendRegister(p)
    \/ \E p \in Procs : SendLogin(p)
    \/ \E p \in Procs : SendRefresh(p)
    \/ \E p \in Procs : SendLogout(p)
    \/ \E p \in Procs : Handle(p)

Spec == Init /\ [][Next]_vars

(* ------------------------ the end-to-end script ----------------------- *)
\* Client 1 runs the end-to-end sequence, one request after the other, each
\* with the refresh secret the previous responses gave it; client 2 is another
\* user's traffic; the run stays within the refresh-token lifetime.
ScriptLength == 6
ScriptTimePoints == {1, 2}

ScriptSend(p) ==
    /\ step < ScriptLength
    /\ step' = step + 1
    /\ CASE step = 0 -> RegisterFind(p, "a@x.com", "P@ssw0rd!", "A")
         [] step = 1 -> LoginFind(p, "a@x.com", "wrong")
         [] step = 2 -> LoginFind(p, "a@x.com", "P@ssw0rd!")
         [] step = 3 -> RefreshFind(p, resp[p].cookieRT)
         [] step = 4 -> Logout(p, resp[p].cookieRT)
         [] step = 5 -> RefreshFind(p, req[p].rt)

OtherSend(p) ==
    /\ started - step < MaxOtherRequests
    /\ UNCHANGED step
    /\ \/ RegisterFind(p, "b@x.com", "P@ssw0rd!", "A")
       \/ \E pw \in Passwords : LoginFind(p, "b@x.com", pw)
       \/ \E rt \in {resp[p].cookieRT, UnknownSecret} : RefreshFind(p, rt)
       \/ \E rt \in {resp[p].cookieRT, UnknownSecret} : Logout(p, rt)

\* no record expires within the script's time, so the expiry branch of refresh
\* (RefreshRevoke) has no step here
HandleUnexpired(p) ==
    \/ RegisterCreate(p)
    \/ RegisterToken(p)
    \/ LoginToken(p)
    \/ LoginUpdate(p)
    \/ RefreshRotate(p)

NextE2E ==
    \/ \E t \in ScriptTimePoints : Tick(t)
    \/ ScriptSend(1)
    \/ OtherSend(2)
    \/ \E p \in Procs : HandleUnexpired(p)

SpecE2E == Init /\ [][NextE2E]_vars

(* --------------------------- store failures --------------------------- *)
\* an awaited call of a handler in flight throws (the store cannot be
\* reached, the token cannot be signed): the handler's catch logs and answers
\* 500; what the handler wrote before stays, as no transaction spans its calls
StoreFails(p) ==
    /\ pc[p] \in {"register_create", "register_token", "login_token", "login_update",
                  "refresh_revoke", "refresh_rotate"}
    /\ Respond(p, Caught(resp[p]))
    /\ UNCHANGED <<users, tokens, now, env, nextSecret, started, req, existing,
                   rotated, step>>

\* requests that pass the handler's checks and reach its first awaited call
Awaiting ==
    {[EmptyReq EXCEPT !.op = "register", !.email = "a@x.com",
                      !.password = "P@ssw0rd!", !.name = "A"],
     [EmptyReq EXCEPT !.op = "login", !.email = "a@x.com", !.password = "P@ssw0rd!"]}
    \cup {[EmptyReq EXCEPT !.op = op, !.rt = rt] :
             op \in {"refresh", "logout"}, rt \in Presentable \ {NoSecret}}

\* the first awaited call of a handler throws: findUnique of register and
\* login, findFirst of refresh, updateMany of logout
FirstCallFails(p) ==
    /\ started < MaxRequests
    /\ \E r \in Awaiting : Accept(p, r)
    /\ Respond(p, Caught(EmptyResp))
    /\ UNCHANGED <<users, tokens, now, env, nextSecret, existing, rotated, step>>

NextFail ==
    \E p \in Procs :
        \/ SendRegister(p)
        \/ SendLogin(p)
        \/ SendRefresh(p)
        \/ SendLogout(p)
        \/ HandleUnexpired(p)
        \/ StoreFails(p)
        \/ FirstCallFails(p)

SpecFail == Init /\ [][NextFail]_vars

\* the event loop resumes every handler in flight: its awaited call returns
\* or throws
SpecFailFair ==
    SpecFail /\ \A p \in Procs : WF_vars(HandleUnexpired(p) \/ StoreFails(p))

(* ---------------------- registrations of any input -------------------- *)
\* req.body of a registration as a client may send it: an email in another
\* letter case, text that is not an email address, a one-character password
AnyEmails == {"a@x.com", "A@x.com", "not-an-email"}
AnyPasswords == {"P@ssw0rd!", "1"}

SendAnyRegister(p) ==
    /\ started < MaxRequests
    /\ \E email \in AnyEmails, password \in AnyPasswords, name \in Names :
          RegisterFind(p, email, password, name)
    /\ UNCHANGED step

HandleRegister(p) == RegisterCreate(p) \/ RegisterToken(p)

NextRegister == \E p \in Procs : SendAnyRegister(p) \/ HandleRegister(p)

SpecRegister == Init /\ [][NextRegister]_vars

(* ----------------------- access-token validation --------------------- *)
\* the access token's lifetime in seconds: the 15 minutes that every issuance
\* path gives the accessToken cookie
AccessTokenTtl == 15 * 60

\* the seconds at which the clock is read
ClockPoints == {1, 899, 900, 901, 1799, 1800, 1801}

\* the signature over the claims
Mac(sub, exp) == <<"hs256", sub, exp>>

\* faulty variant: a token is still accepted at the second of its expiry
ValidateLate(token, t) ==
    IF token.sig # Mac(token.sub, token.exp) THEN "InvalidSignature"
    ELSE IF t > token.exp THEN "Expired"
    ELSE "Valid"

\* Token Codec validate: the signature first, then the expiry, strictly
Validate(token, t) ==
    IF token.sig # Mac(token.sub, token.exp) THEN "InvalidSignature"
    ELSE IF t >= token.exp THEN "Expired"
    ELSE "Valid"

\* Token Codec create: a token for the user, signed, expiring after the TTL
GateIssue(sub) ==
    /\ gate' = [gate EXCEPT !.sub = sub, !.exp = gate.clock + AccessTokenTtl,
                            !.sig = Mac(sub, gate.clock + AccessTokenTtl),
                            !.issuedAt = gate.clock, !.tampered = FALSE,
                            !.verdict = ""]
    /\ UNCHANGED <<server, client>>

\* the holder alters the payload of the token it was issued and keeps the
\* signature: another subject, or a later expiry
GateTamper ==
    /\ gate.sub # NoUser
    /\ ~gate.tampered
    /\ \/ \E sub \in {1, 2} \ {gate.sub} : gate' = [gate EXCEPT !.sub = sub, !.tampered = TRUE,
                                                               !.verdict = ""]
       \/ gate' = [gate EXCEPT !.exp = gate.exp + AccessTokenTtl, !.tampered = TRUE,
                               !.verdict = ""]
    /\ UNCHANGED <<server, client>>

GateTick(t) ==
    /\ t > gate.clock
    /\ gate' = [gate EXCEPT !.clock = t, !.verdict = ""]
    /\ UNCHANGED <<server, client>>

\* the Request Gate validates the token it is presented
GateValidate ==
    /\ gate.sub # NoUser
    /\ gate' = [gate EXCEPT !.verdict = Validate(gate, gate.clock)]
    /\ UNCHANGED <<server, client>>

NextGate ==
    \/ \E sub \in {1, 2} : GateIssue(sub)
    \/ GateTamper
    \/ \E t \in ClockPoints : GateTick(t)
    \/ GateValidate

SpecGate == Init /\ [][NextGate]_vars

(* --------------------------- browser client --------------------------- *)
\* the calls of the pages to the API service that one page visit makes
MaxCalls == 3

\* a counter of requests stops here
CounterCap == 3

\* fetch rejected: the network failed, no response
Rejected == -1

\* what the server or the network answers a request with
Answers == {200, 401, 500, Rejected}

\* userApi.getProfile, apiUtils.silentAuthCheck, apiUtils.checkAuthStatus,
\* authApi.register, authApi.login, authApi.refreshToken, authApi.logout,
\* authApi.verifyEmail
ClientCalls ==
    {"getProfile", "silentAuthCheck", "checkAuthStatus",
     "register", "login", "refreshToken", "logout", "verifyEmail"}

\* the endpoint each call fetches
UrlOf(call) ==
    CASE call = "register" -> "/auth/register"
      [] call = "login" -> "/auth/login"
      [] call = "refreshToken" -> "/auth/refresh"
      [] call = "logout" -> "/auth/logout"
      [] call = "verifyEmail" -> "/auth/verify"
      [] call \in {"getProfile", "silentAuthCheck", "checkAuthStatus"} -> "/users/me"

\* faulty variant: every 401 is followed by a refresh, whatever the route
ShouldRefreshAny401(status, url) == status = 401

\* the interceptor's condition for a refresh: 401, not an auth route that it
\* names, and a /users/ route
ShouldRefresh(status, url) ==
    /\ status = 401
    /\ url \notin {"/auth/refresh", "/auth/login", "/auth/register"}
    /\ url \in {"/users/me", "/users/user"}

\* faulty variant: the retry goes through the patched fetch again
AfterRetryIntercepted(status, url) ==
    IF ShouldRefresh(status, url) THEN "refresh" ELSE "returned"

\* response = await originalFetch(request): the retry's response is returned
\* whatever its status
AfterRetry(status, url) == "returned"

\* setupApiInterceptors(), called by App's mount effect: window.fetch is
\* replaced
ClientInstall ==
    /\ ~client.installed
    /\ client' = [client EXCEPT !.installed = TRUE]
    /\ UNCHANGED <<server, gate>>

\* a page calls the API service; the call's fetch is window.fetch as it is now
ClientCall(c) ==
    /\ client.at \in {"idle", "returned"}
    /\ client.calls < MaxCalls
    /\ client' = [client EXCEPT !.call = c, !.url = UrlOf(c),
                                !.through = client.installed, !.at = "first",
                                !.status = NoStatus, !.refreshCalls = 0, !.retries = 0,
                                !.calls = @ + 1]
    /\ UNCHANGED <<server, gate>>

\* the request is answered; the interceptor, if the call went through it,
\* calls authApi.refreshToken() when its condition holds
ClientFirst(st) ==
    /\ client.at = "first"
    /\ IF client.through /\ ShouldRefresh(st, client.url)
       THEN client' = [client EXCEPT !.status = st, !.at = "refresh",
                                     !.refreshCalls = @ + 1]
       ELSE client' = [client EXCEPT !.status = st, !.at = "returned"]
    /\ UNCHANGED <<server, gate>>

\* await authApi.refreshToken(): apiRequest throws unless the answer is ok;
\* after a 200 the original request is sent again, otherwise the catch warns
\* and the first response is returned
AfterRefresh(st) == IF st = 200 THEN "retry" ELSE "returned"

\* POST /auth/refresh is answered
ClientRefresh(st) ==
    /\ client.at = "refresh"
    /\ IF AfterRefresh(st) = "retry"
       THEN client' = [client EXCEPT !.at = "retry", !.retries = @ + 1]
       ELSE client' = [client EXCEPT !.at = "returned"]
    /\ UNCHANGED <<server, gate>>

\* the retry is answered; a rejected retry is caught and the first response
\* is returned
ClientRetry(st) ==
    /\ client.at = "retry"
    /\ client.refreshCalls < CounterCap
    /\ IF st = Rejected
       THEN client' = [client EXCEPT !.at = "returned"]
       ELSE client' = [client EXCEPT
                         !.status = st,
                         !.at = AfterRetry(st, client.url),
                         !.refreshCalls = IF AfterRetry(st, client.url) = "refresh"
                                          THEN @ + 1 ELSE @]
    /\ UNCHANGED <<server, gate>>

\* the network settles a pending fetch
ClientSettle ==
    \E st \in Answers : ClientFirst(st) \/ ClientRefresh(st) \/ ClientRetry(st)

NextClient ==
    \/ ClientInstall
    \/ \E c \in ClientCalls : ClientCall(c)
    \/ \E st \in Answers : ClientFirst(st)
    \/ \E st \in Answers : ClientRefresh(st)
    \/ \E st \in Answers : ClientRetry(st)

\* every pending fetch settles: it is answered or it is rejected
SpecClient == Init /\ [][NextClient]_vars /\ WF_vars(ClientSettle)

(* ============================== claims ================================ *)
\* the error of the taxonomy a response carries
Kind(r) ==
    CASE r.status \in {200, 201} -> "Success"
      [] r.status = 400 -> "InvalidInput"
      [] r.status = 409 -> "Conflict"
      [] r.status = 500 -> "Internal"
      [] r.status = 401 /\ r.message = "Invalid email or password" -> "InvalidCredentials"
      [] r.status = 401 /\ r.message = "Refresh token expired" -> "Expired"
      [] r.status = 401 -> "InvalidToken"
      [] OTHER -> "None"

\* the response issues no token: no body token, no cookie
IssuesNothing(r) ==
    /\ r.accessToken = NoAccessToken
    /\ r.cookieAT = NoAccessToken
    /\ r.cookieRT = NoSecret

Done(p, op) == pc[p] = "done" /\ req[p].op = op

\* a finished refresh that got as far as the conditional rotate
Rotating(p) ==
    /\ Done(p, "refresh")
    /\ resp[p].message \in {"", "Invalid or already rotated refresh token"}

Successors(s) == {r \in rotated : r[1] = s}

\* C1: of two finished Refresh calls that presented the same secret S and both
\* reached the conditional rotate, at most one succeeded; the loser got 401
\* InvalidToken and nothing issued; both lost only if the record was revoked
\* meanwhile or a third call rotated S; and S never has two successor secrets.
C1_OneRefreshWins ==
    /\ \A s \in 1..(nextSecret - 1) : Cardinality(Successors(s)) <= 1
    /\ \A p, q \in Procs :
         (p # q /\ Rotating(p) /\ Rotating(q) /\ req[p].rt = req[q].rt) =>
            /\ ~(resp[p].status = 200 /\ resp[q].status = 200)
            /\ resp[p].status # 200 =>
                  /\ Kind(resp[p]) = "InvalidToken"
                  /\ IssuesNothing(resp[p])
            /\ (resp[p].status # 200 /\ resp[q].status # 200) =>
                  \/ tokens[existing[p]].revoked
                  \/ Successors(req[p].rt) # {}

C1_Witness ==
    \E p, q \in Procs :
        /\ p # q /\ Rotating(p) /\ Rotating(q) /\ req[p].rt = req[q].rt
        /\ resp[p].status = 200 /\ resp[q].status = 401

\* C2: a refresh secret is single-use: a Refresh sent with a secret S that an
\* earlier Refresh has already rotated is answered at once with 401
\* InvalidToken, issues nothing and changes no record.
C2_SingleUse ==
    [][\A p \in Procs : \A s \in 1..(nextSecret - 1) :
          (RefreshFind(p, s) /\ Successors(s) # {}) =>
             /\ pc'[p] = "done"
             /\ Kind(resp'[p]) = "InvalidToken"
             /\ IssuesNothing(resp'[p])
             /\ tokens' = tokens]_vars

C2_Witness ==
    \E p \in Procs :
        /\ Done(p, "refresh")
        /\ Successors(req[p].rt) # {}
        /\ resp[p].status = 401
        /\ resp[p].message = "Invalid refresh token"

\* C3: every write of a refresh handler to a refresh-token record takes effect
\* only if the record still has the hash the writer looked up and revoked =
\* false; so a Refresh that found the record expired does not revoke it once a
\* concurrent Refresh has rotated it.
C3_ConditionalWrites ==
    [][\A p \in Procs :
          ((RefreshRevoke(p) \/ RefreshRotate(p)) /\ tokens' # tokens) =>
             MatchesActive(tokens[existing[p]], Sha256(req[p].rt))]_vars

\* C4: a Refresh(S) whose lookup matches a non-revoked record with expiresAt
\* <= now takes the expiry branch, which answers 401 Expired, issues nothing
\* and leaves the record revoked; a Refresh(S) sent after that answer gets 401
\* InvalidToken.
C4_ExpiredRefresh ==
    [][\A p \in Procs :
          /\ \A s \in 1..(nextSecret - 1) :
                LET found == findFirstToken(Sha256(s))
                IN (RefreshFind(p, s) /\ found # NoToken /\ tokens[found].expiresAt <= now) =>
                      /\ pc'[p] = "refresh_revoke"
                      /\ existing'[p] = found
          /\ RefreshRevoke(p) =>
                /\ pc'[p] = "done"
                /\ Kind(resp'[p]) = "Expired"
                /\ IssuesNothing(resp'[p])
                /\ tokens'[existing[p]].revoked
          /\ \A q \in Procs :
                (Done(q, "refresh") /\ Kind(resp[q]) = "Expired" /\ RefreshFind(p, req[q].rt)) =>
                   /\ pc'[p] = "done"
                   /\ Kind(resp'[p]) = "InvalidToken"
                   /\ IssuesNothing(resp'[p])]_vars

\* a record found on the very day it expires, then the same secret refused
C4_Witness ==
    \E p, q \in Procs :
        /\ p # q
        /\ Done(p, "refresh") /\ Kind(resp[p]) = "Expired"
        /\ tokens[existing[p]].expiresAt = now
        /\ tokens[existing[p]].revoked
        /\ Done(q, "refresh") /\ req[q].rt = req[p].rt
        /\ resp[q].message = "Invalid refresh token"

\* a Logout(S) has been answered
LoggedOut(s) == \E q \in Procs : Done(q, "logout") /\ req[q].rt = s /\ resp[q].status = 200

\* C5: Logout(S) always answers 200 and leaves no active record matching S; a
\* Logout(S) after an answered Logout(S) changes no record; a Refresh(S) sent
\* after an answered Logout(S) fails with 401 and issues nothing.
C5_LogoutIdempotent ==
    [][\A p \in Procs : \A s \in Presentable :
          /\ Logout(p, s) =>
                /\ pc'[p] = "done"
                /\ resp'[p].status = 200
                /\ \A i \in 1..Len(tokens') : ~MatchesActive(tokens'[i], Sha256(s))
                /\ LoggedOut(s) => (tokens' = tokens /\ users' = users)
          /\ (RefreshFind(p, s) /\ LoggedOut(s)) =>
                /\ pc'[p] = "done"
                /\ resp'[p].status = 401
                /\ IssuesNothing(resp'[p])]_vars

\* two answered Logout calls with the same issued secret
C5_Witness ==
    \E p, q \in Procs :
        /\ p # q
        /\ Done(p, "logout") /\ Done(q, "logout")
        /\ req[p].rt = req[q].rt /\ req[p].rt >= 1
        /\ resp[p].status = 200 /\ resp[q].status = 200
        /\ \E i \in 1..Len(tokens) : tokens[i].tokenHash = Sha256(req[p].rt) /\ tokens[i].revoked

\* a Register request with every field present
ValidRegister(p) ==
    /\ req[p].op = "register"
    /\ req[p].email # Missing /\ req[p].password # Missing /\ req[p].name # Missing

\* the Register calls that have created their user
Registered(e) ==
    {p \in Procs : /\ ValidRegister(p) /\ req[p].email = e
                   /\ \/ pc[p] = "register_token"
                      \/ pc[p] = "done" /\ resp[p].status = 201}

\* C6: for every email, at most one User record holds it, at most one
\* Register call for it has created a user or been answered 201, and a
\* Register answered 201 returns the id of the one record with its email.
C6_OneRegistrationPerEmail ==
    \A e \in Emails :
        /\ Cardinality({i \in 1..Len(users) : users[i].email = e}) <= 1
        /\ Cardinality(Registered(e)) <= 1
        /\ \A p \in Registered(e) : users[existing[p]].email = e
        /\ \A p \in Registered(e) : pc[p] = "done" => resp[p].userId = existing[p]

\* two Register calls for one email, both answered, one of them with 201
C6_Witness ==
    \E p, q \in Procs :
        /\ p # q
        /\ Done(p, "register") /\ Done(q, "register")
        /\ ValidRegister(p) /\ ValidRegister(q) /\ req[p].email = req[q].email
        /\ resp[p].status = 201 /\ resp[q].status # 201

\* C7: every answered Register call with all its fields that did not win the
\* registration of its email is answered 409 Conflict.
C7_LoserGetsConflict ==
    \A p \in Procs :
        (Done(p, "register") /\ ValidRegister(p) /\ resp[p].status # 201) =>
            Kind(resp[p]) = "Conflict"

\* C8: a Login with the email and password of a Register call that was
\* answered 201 passes the credential check as the registered user, and the
\* handler then stores a refresh-token record for that user and answers 200
\* with that user's id, an access token and a refresh secret.
C8_LoginAfterRegister ==
    [][\A p \in Procs :
          /\ \A q \in Procs :
                (/\ Done(q, "register") /\ resp[q].status = 201
                 /\ LoginFind(p, req[q].email, req[q].password)) =>
                    /\ pc'[p] = "login_token"
                    /\ existing'[p] = resp[q].userId
          /\ LoginToken(p) =>
                /\ pc'[p] = "login_update"
                /\ Len(tokens') = Len(tokens) + 1
                /\ tokens'[Len(tokens')].userId = existing[p]
          /\ LoginUpdate(p) =>
                /\ pc'[p] = "done"
                /\ resp'[p].status = 200
                /\ resp'[p].userId = existing[p]
                /\ resp'[p].accessToken.sub = existing[p]
                /\ resp'[p].cookieRT >= 1]_vars

\* a Login answered 200 with the id a Register with the same credentials got
C8_Witness ==
    \E p, q \in Procs :
        /\ p # q
        /\ Done(q, "register") /\ resp[q].status = 201
        /\ Done(p, "login") /\ resp[p].status = 200
        /\ req[p].email = req[q].email /\ req[p].password = req[q].password
        /\ resp[p].userId = resp[q].userId

\* a Login request with both fields
ValidLogin(p) == req[p].op = "login" /\ req[p].email # Missing /\ req[p].password # Missing

\* C10: a Login that fails because no user has the email, or because the
\* password does not match, is answered with the same status, body and
\* cookies as every other Login that failed for either reason.
C10_LoginFailuresAlike ==
    [][\A p, q \in Procs : \A e \in Emails, pw \in Passwords :
          LET user == findUniqueUser(e)
          IN (/\ LoginFind(p, e, pw)
              /\ (user = NoUser \/ users[user].hashedPassword # hashPassword(pw))
              /\ Done(q, "login") /\ ValidLogin(q) /\ resp[q].status # 200) =>
                 /\ pc'[p] = "done"
                 /\ resp'[p] = resp[q]
                 /\ Kind(resp'[p]) = "InvalidCredentials"]_vars

\* one Login refused for an unknown email beside one refused for a wrong
\* password
C10_Witness ==
    \E p, q \in Procs :
        /\ Done(p, "login") /\ ValidLogin(p) /\ findUniqueUser(req[p].email) = NoUser
        /\ Done(q, "login") /\ ValidLogin(q) /\ findUniqueUser(req[q].email) # NoUser
        /\ resp[p].status = 401 /\ resp[q].status = 401

\* C9: the end-to-end sequence of client 1, whatever another user's client does
\* meanwhile: Register of the fresh email is answered 201; Login with the wrong
\* password 401 InvalidCredentials; Login with the right password 200 with an
\* access token and a refresh secret R; Refresh(R) 200 with a new access token
\* and a new secret R', after which no active record matches R; Logout(R') 200;
\* Refresh(R') 401.
C9_EndToEnd ==
    pc[1] = "done" =>
        /\ step = 1 => (resp[1].status = 201 /\ req[1].op = "register")
        /\ step = 2 => (resp[1].status = 401 /\ Kind(resp[1]) = "InvalidCredentials")
        /\ step = 3 => /\ resp[1].status = 200
                       /\ resp[1].accessToken # NoAccessToken
                       /\ resp[1].cookieRT >= 1
        /\ step = 4 => /\ resp[1].status = 200
                       /\ req[1].op = "refresh"
                       /\ resp[1].accessToken # NoAccessToken
                       /\ resp[1].cookieRT >= 1
                       /\ resp[1].cookieRT # req[1].rt
                       /\ findFirstToken(Sha256(req[1].rt)) = NoToken
        /\ step = 5 => /\ resp[1].status = 200
                       /\ req[1].op = "logout"
                       /\ \E r \in rotated : r[2] = req[1].rt
        /\ step = 6 => /\ resp[1].status = 401
                       /\ req[1].op = "refresh"
                       /\ \E r \in rotated : r[2] = req[1].rt
                       /\ IssuesNothing(resp[1])

\* the script has run to its end
C9_Witness ==
    /\ step = ScriptLength /\ pc[1] = "done"
    /\ resp[1].status = 401
    /\ \E r \in rotated : r[2] = req[1].rt

(* ------------------------------ C11 ------------------------------------ *)
\* C11: a finished Refresh that presented a secret which another call has
\* rotated and that was rejected as InvalidToken (the rejection by the
\* conditional rotate included) carries the same status and body as a
\* Refresh of an unknown or revoked secret
C11_ReplayLooksAlike ==
    \A p \in Procs :
        /\ Done(p, "refresh")
        /\ Successors(req[p].rt) # {}
        /\ Kind(resp[p]) = "InvalidToken"
        => resp[p] = InvalidRefreshToken

(* ------------------------------ C12 ------------------------------------ *)
\* the secret a chain of rotations that started from s has arrived at
RECURSIVE Latest(_)
Latest(s) ==
    IF Successors(s) = {}
    THEN s
    ELSE Latest((CHOOSE r \in Successors(s) : TRUE)[2])

\* C12: once a Refresh of a secret that has already been rotated is rejected
\* as a replay, the record the secret belonged to is revoked
C12_ReplayRevokes ==
    \A p \in Procs :
        /\ Done(p, "refresh")
        /\ Successors(req[p].rt) # {}
        /\ Kind(resp[p]) = "InvalidToken"
        => \A i \in 1..Len(tokens) :
              tokens[i].tokenHash = Sha256(Latest(req[p].rt)) => tokens[i].revoked

(* ------------------------------ C13 ------------------------------------ *)
\* the secrets reached from the secrets of S by successful rotations
RECURSIVE Reach(_)
Reach(S) ==
    LET T == S \cup {r[2] : r \in {x \in rotated : x[1] \in S}}
    IN IF T = S THEN S ELSE Reach(T)

\* a rotation chain: the secret of one issuance and all that it was rotated to
Chain(s) == Reach({s})

\* the secrets that start a chain: generated, and not the result of a rotation
Roots == {s \in 1..(nextSecret - 1) : \A r \in rotated : r[2] # s}

\* the records of the chain that are neither revoked nor expired
ActiveRecords(c) ==
    {i \in 1..Len(tokens) :
        /\ \E s \in c : tokens[i].tokenHash = Sha256(s)
        /\ ~tokens[i].revoked
        /\ ~IsExpired(tokens[i])}

\* Refresh would accept the secret now: the lookup matches and it is not expired
Accepted(s) ==
    /\ findFirstToken(Sha256(s)) # NoToken
    /\ ~IsExpired(tokens[findFirstToken(Sha256(s))])

\* C13: every rotation chain has at most one active record and at most one
\* secret that Refresh would accept
C13_OneActivePerChain ==
    \A root \in Roots :
        /\ Cardinality(ActiveRecords(Chain(root))) <= 1
        /\ Cardinality({s \in Chain(root) : Accepted(s)}) <= 1

\* a chain that has been rotated and whose one active record answers to its
\* latest secret only, next to another chain with an active record
C13_Witness ==
    \E root, other \in Roots :
        /\ root # other
        /\ Cardinality(Chain(root)) >= 2
        /\ Cardinality(ActiveRecords(Chain(root))) = 1
        /\ {s \in Chain(root) : Accepted(s)} = {Latest(root)}
        /\ Cardinality(ActiveRecords(Chain(other))) = 1

(* ------------------------------ C14 ------------------------------------ *)
\* the records that hold the digest of the secret
RecordsOf(s) == {i \in 1..Len(tokens) : tokens[i].tokenHash = Sha256(s)}

\* C14: a successful Refresh answers with an access token whose subject is the
\* owner of the record, and the secret S' it returned stays accepted, for the
\* same owner, until S' expires, is logged out or is itself rotated
C14_RotatedSecretUsable ==
    /\ \A p \in Procs :
          Done(p, "refresh") /\ resp[p].status = 200
          => \A i \in RecordsOf(resp[p].cookieRT) :
                resp[p].accessToken.sub = tokens[i].userId
    /\ \A r \in rotated :
          /\ Successors(r[2]) = {}
          /\ ~LoggedOut(r[2])
          /\ \E i \in RecordsOf(r[2]) : ~IsExpired(tokens[i])
          => Accepted(r[2])

(* ------------------------------ C15 ------------------------------------ *)
\* C15: the steps of a Login leave every record that exists as it is; the
\* step that stores the session adds exactly one record, not revoked, for the
\* digest of a fresh secret that no rotation has produced or consumed
C15_LoginKeepsOthers ==
    [][\A p \in Procs :
          /\ SendLogin(p) \/ LoginUpdate(p) => tokens' = tokens
          /\ LoginToken(p) =>
                /\ Len(tokens') = Len(tokens) + 1
                /\ \A i \in 1..Len(tokens) : tokens'[i] = tokens[i]
                /\ tokens'[Len(tokens')].tokenHash = Sha256(nextSecret)
                /\ ~tokens'[Len(tokens')].revoked
                /\ RecordsOf(nextSecret) = {}
                /\ nextSecret \in Roots'
                /\ rotated' = rotated]_vars

\* a Login answered 200 while an earlier session of the same user and a
\* session of another user are still active
C15_Witness ==
    \E p \in Procs :
        /\ Done(p, "login")
        /\ resp[p].status = 200
        /\ \E i, j \in 1..Len(tokens) :
              /\ tokens[i].userId = resp[p].userId
              /\ tokens[i].tokenHash # Sha256(resp[p].cookieRT)
              /\ ~tokens[i].revoked
              /\ tokens[j].userId # resp[p].userId
              /\ ~tokens[j].revoked

(* ------------------------------ C19 ------------------------------------ *)
\* C19: every stored tokenHash is a SHA-256 digest and every stored
\* passwordHash an argon2 hash; no record holds a generated refresh secret
\* as it is
C19_OnlyDigestsStored ==
    /\ \A i \in 1..Len(tokens) :
          /\ tokens[i].tokenHash[1] = "sha256"
          /\ \A s \in 1..(nextSecret - 1) : tokens[i].tokenHash # StoredAsIs(s)
    /\ \A u \in 1..Len(users) : users[u].hashedPassword[1] = "argon2"

\* a client holds the secret of a rotation and the store holds its digest
C19_Witness ==
    \E p \in Procs :
        /\ Done(p, "refresh")
        /\ resp[p].status = 200
        /\ \E i \in 1..Len(tokens) :
              /\ tokens[i].tokenHash = <<"sha256", resp[p].cookieRT>>
              /\ ~tokens[i].revoked

(* ------------------------------ C20 ------------------------------------ *)
\* C20: no response carries a refresh secret in its body; a response that
\* carries one carries it in the refreshToken cookie, set httpOnly
C20_SecretOnlyInCookie ==
    \A p \in Procs :
        /\ resp[p].refreshToken = NoSecret
        /\ resp[p].cookieRT # NoSecret => resp[p].httpOnly

\* a Register, Login or Refresh answered with a secret in the cookie
C20_Witness ==
    \E p, q \in Procs :
        /\ Done(p, "refresh") /\ resp[p].status = 200
        /\ resp[p].cookieRT \in 1..(nextSecret - 1)
        /\ Done(q, "register") \/ Done(q, "login")
        /\ resp[q].status \in {200, 201}
        /\ resp[q].cookieRT \in 1..(nextSecret - 1)

(* ------------------------------ C16 ------------------------------------ *)
\* r asks to register an email that differs only in letter case from the
\* email of a user whose Register has been answered 201
CaseVariantHeld(r) ==
    /\ r.op = "register"
    /\ r.password # Missing /\ r.name # Missing
    /\ \E q \in Procs :
          /\ Done(q, "register") /\ resp[q].status = 201
          /\ users[resp[q].userId].email # r.email
          /\ Lower(users[resp[q].userId].email) = Lower(r.email)

\* C16: every step of a Register of an email that differs only in letter case
\* from the email of a registered user creates no user, and the Register is
\* answered 409
C16_CaseInsensitiveConflict ==
    [][\A p \in Procs :
          CaseVariantHeld(req'[p]) /\ pc'[p] # pc[p]
          => /\ users' = users
             /\ pc'[p] = "done" => resp'[p].status = 409
             /\ pc'[p] # "register_token"]_vars

(* ------------------------------ C17 ------------------------------------ *)
\* inputs that no strength policy and no email syntax lets through
WeakPasswords == {"1"}
InvalidEmails == {"not-an-email"}

\* C17: a Register with a weak password or with text that is not an email
\* address is answered 400 at once and writes neither a user nor a
\* refresh-token record
C17_WeakInputRejected ==
    [][\A p \in Procs :
          /\ req'[p].op = "register"
          /\ req'[p].password \in WeakPasswords \/ req'[p].email \in InvalidEmails
          /\ pc'[p] # pc[p]
          => /\ users' = users
             /\ tokens' = tokens
             /\ pc'[p] = "done"
             /\ resp'[p].status = 400]_vars

(* ------------------------------ C18 ------------------------------------ *)
\* the call of p in flight has already written to the store: the user of a
\* Register, the refresh-token record of a Login
HasWritten(p) == pc[p] \in {"register_token", "login_update"}

\* C18: a Register, Login or Refresh that is answered with an error has
\* written nothing, neither in the step that answers nor before it
C18_FailedCallWritesNothing ==
    [][\A p \in Procs :
          /\ pc[p] # "done" /\ pc'[p] = "done"
          /\ req'[p].op \in {"register", "login", "refresh"}
          /\ resp'[p].status \notin {200, 201}
          => /\ ~HasWritten(p)
             /\ users' = users
             /\ tokens' = tokens]_vars

(* ------------------------------ C21 ------------------------------------ *)
\* C21: no response carries an access token or a refresh secret in its
\* body, where client script can read it; a token that is issued travels in
\* a cookie set httpOnly
C21_TokensOutOfScriptReach ==
    \A p \in Procs :
        /\ resp[p].accessToken = NoAccessToken
        /\ resp[p].refreshToken = NoSecret
        /\ resp[p].cookieAT # NoAccessToken \/ resp[p].cookieRT # NoSecret
           => resp[p].httpOnly

(* ------------------------------ C22 ------------------------------------ *)
\* C22: with REFRESH_TOKEN_EXP_DAYS unset, the record that Register or Login
\* stores and the record that a successful Refresh rotates expire 30 days
\* after the write
C22_ThirtyDayDefault ==
    [][\A p \in Procs :
          /\ env = EnvUnset /\ (RegisterToken(p) \/ LoginToken(p))
             => tokens'[Len(tokens')].expiresAt = now + 30
          /\ env = EnvUnset /\ RefreshRotate(p) /\ resp'[p].status = 200
             => tokens'[existing[p]].expiresAt = now + 30]_vars

(* ------------------------------ C23 ------------------------------------ *)
\* the secret is absent, or its digest is the tokenHash of no record that is
\* not revoked
NoActiveMatch(rt) ==
    \/ rt = NoSecret
    \/ \A i \in 1..Len(tokens) : tokens[i].tokenHash = Sha256(rt) => tokens[i].revoked

\* C23: a Logout with no secret, or with a secret that matches no record
\* that is not revoked, is answered 200, clears both cookies and leaves every
\* refresh-token record as it is
C23_LogoutWithoutMatch ==
    [][\A p \in Procs :
          SendLogout(p) /\ NoActiveMatch(req'[p].rt)
          => /\ tokens' = tokens
             /\ pc'[p] = "done"
             /\ resp'[p].status = 200
             /\ resp'[p].clearAT /\ resp'[p].clearRT]_vars

\* a Logout without a cookie and a Logout with a secret never issued have
\* been answered 200 while a session is active
C23_Witness ==
    \E p, q \in Procs :
        /\ Done(p, "logout") /\ req[p].rt = NoSecret /\ resp[p].status = 200
        /\ Done(q, "logout") /\ req[q].rt = UnknownSecret /\ resp[q].status = 200
        /\ \E i \in 1..Len(tokens) : ~tokens[i].revoked

(* ------------------------------ C24 ------------------------------------ *)
\* C24: a Refresh with no secret, or with a secret that matches no record
\* that is not revoked, is answered 401 InvalidToken at once, issues no token
\* and leaves every refresh-token record as it is
C24_RefreshWithoutMatch ==
    [][\A p \in Procs :
          SendRefresh(p) /\ NoActiveMatch(req'[p].rt)
          => /\ tokens' = tokens
             /\ pc'[p] = "done"
             /\ resp'[p].status = 401
             /\ Kind(resp'[p]) = "InvalidToken"
             /\ IssuesNothing(resp'[p])]_vars

\* a Refresh of a secret whose record has been revoked was answered 401
C24_Witness ==
    \E p \in Procs :
        /\ Done(p, "refresh")
        /\ req[p].rt \in 1..(nextSecret - 1)
        /\ RecordsOf(req[p].rt) # {}
        /\ \A i \in RecordsOf(req[p].rt) : tokens[i].revoked /\ ~IsExpired(tokens[i])
        /\ resp[p] = InvalidRefreshToken

(* ------------------------------ C29 ------------------------------------ *)
\* C29: once a Logout that presented an issued secret S has been answered
\* 200, the session of S has no active record: neither S nor a secret that S
\* was rotated to belongs to a record that is not revoked and not expired
C29_LogoutEndsSession ==
    \A q \in Procs :
        /\ Done(q, "logout")
        /\ resp[q].status = 200
        /\ req[q].rt \in 1..(nextSecret - 1)
        => ActiveRecords(Chain(req[q].rt)) = {}

(* ------------------------------ C30 ------------------------------------ *)
\* no secret that was generated is accepted for record i
NoneAcceptedFor(i) ==
    \A s \in 1..(nextSecret - 1) : findFirstToken(Sha256(s)) # i

\* C30: no step changes a record that is revoked (its flag, its tokenHash or
\* its expiresAt), and no secret is accepted for a revoked record, before or
\* after the step
C30_RevocationPermanent ==
    [][\A i \in 1..Len(tokens) :
          tokens[i].revoked
          => /\ tokens'[i] = tokens[i]
             /\ NoneAcceptedFor(i)
             /\ NoneAcceptedFor(i)']_vars

\* a Refresh that had passed the lookup before the record was revoked came to
\* its rotate afterwards and was rejected; the record is still revoked
C30_Witness ==
    \E p \in Procs :
        /\ Rotating(p)
        /\ resp[p].status = 401
        /\ tokens[existing[p]].revoked
        /\ tokens[existing[p]].tokenHash = Sha256(req[p].rt)

(* ------------------------------ C25 ------------------------------------ *)
InFlight(p) == pc[p] \notin {"idle", "done"}

C26_AccessTokenWindow ==
    [][GateValidate =>
         gate'.verdict = IF gate.tampered THEN "InvalidSignature"
                         ELSE IF gate.clock >= gate.issuedAt + 900 THEN "Expired"
                         ELSE "Valid"]_vars

\* a token validated at the very second of its expiry is Expired
C26_Witness ==
    /\ gate.verdict = "Expired"
    /\ ~gate.tampered
    /\ gate.clock = gate.issuedAt + 900

(* ------------------------------ C27 ------------------------------------ *)
\* C27: for one original request the interceptor sends at most one request
\* to /auth/refresh and at most one retry, and the call returns
C27_OneRefreshOneRetry ==
    /\ [](client.refreshCalls <= 1 /\ client.retries <= 1)
    /\ (client.at \in {"first", "refresh", "retry"}) ~> (client.at = "returned")

\* a request to /users/me got 401, the refresh succeeded, the retry got 401
\* again and the call returned that response
C27_Witness ==
    /\ client.through
    /\ client.url = "/users/me"
    /\ client.at = "returned"
    /\ client.status = 401
    /\ client.refreshCalls = 1
    /\ client.retries = 1

(* ------------------------------ C28 ------------------------------------ *)
\* C28: a call of silentAuthCheck or checkAuthStatus sends no request to
\* /auth/refresh, whether or not the interceptor is installed
C28_SilentCheckNeverRefreshes ==
    client.call \in {"silentAuthCheck", "checkAuthStatus"} => client.refreshCalls = 0

C32_LogoutRevokesOnlyItsOwn ==
    [][\A p \in Procs :
          SendLogout(p)
          => /\ Len(tokens') = Len(tokens)
             /\ \A i \in 1..Len(tokens) :
                   IF tokens[i].tokenHash = Sha256(req'[p].rt)
                   THEN tokens'[i] = [tokens[i] EXCEPT !.revoked = TRUE]
                   ELSE tokens'[i] = tokens[i]
             /\ \A s \in 1..(nextSecret - 1) :
                   s # req'[p].rt /\ Accepted(s) => Accepted(s)']_vars

\* a Logout has revoked its own session and another session of the same user
\* is still active
C32_Witness ==
    \E p \in Procs :
        /\ Done(p, "logout")
        /\ resp[p].status = 200
        /\ \E i, j \in 1..Len(tokens) :
              /\ tokens[i].tokenHash = Sha256(req[p].rt) /\ tokens[i].revoked
              /\ tokens[j].userId = tokens[i].userId
              /\ ~tokens[j].revoked /\ ~IsExpired(tokens[j])

(* ------------------------------ C33 ------------------------------------ *)
\* the Login request must be rejected: a field is missing, no user holds the
\* email, or the password is not the user's
MustReject(r) ==
    \/ r.email = Missing \/ r.password = Missing
    \/ \A u \in 1..Len(users) : users[u].email # r.email
    \/ \E u \in 1..Len(users) :
          /\ users[u].email = r.email
          /\ ~verifyPassword(users[u].hashedPassword, r.password)

\* C33: a Login that must be rejected is answered 400 or 401 at once and
\* writes nothing; the update of a Login that succeeds sets lastLoginAt of
\* the user who holds the email, changes nothing else of that user, no other
\* user and no refresh-token record
C33_LoginFrame ==
    [][\A p \in Procs :
          /\ SendLogin(p) /\ MustReject(req'[p])
             => /\ pc'[p] = "done"
                /\ resp'[p].status \in {400, 401}
                /\ users' = users
                /\ tokens' = tokens
          /\ LoginUpdate(p)
             => /\ users[existing[p]].email = req[p].email
                /\ users' = [users EXCEPT ![existing[p]].lastLoginAt = now]
                /\ tokens' = tokens
                /\ resp'[p].status = 200]_vars

\* a Login with a wrong password was answered 401 and a Login with the right
\* one 200, the user's lastLoginAt being set to the time of the update
C33_Witness ==
    \E p, q \in Procs :
        /\ Done(p, "login") /\ resp[p].status = 401
        /\ req[p].password = "wrong"
        /\ \E u \in 1..Len(users) : users[u].email = req[p].email
        /\ Done(q, "login") /\ resp[q].status = 200
        /\ users[resp[q].userId].lastLoginAt = now

(* ------------------------------ C34 ------------------------------------ *)
\* C34: a Register, Login or Refresh that is answered with a status other
\* than 200 or 201 sets no accessToken cookie and no refreshToken cookie
\* whose secret Refresh accepts
C34_CookiesOnlyWithSuccess ==
    \A p \in Procs :
        /\ pc[p] = "done"
        /\ req[p].op \in {"register", "login", "refresh"}
        /\ resp[p].status \notin {200, 201}
        => /\ resp[p].cookieAT = NoAccessToken
           /\ resp[p].cookieRT = NoSecret \/ ~Accepted(resp[p].cookieRT)

(* ------------------------------ C35 ------------------------------------ *)
\* C35: the refreshToken cookie set by Register, Login or Refresh lives as
\* long as the record that holds the digest of its secret: maxAge is the
\* record's expiresAt minus the time of issue
C35_CookieLivesAsRecord ==
    [][\A p \in Procs :
          RegisterToken(p) \/ LoginToken(p) \/ (RefreshRotate(p) /\ resp'[p].status = 200)
          => \A i \in 1..Len(tokens') :
                tokens'[i].tokenHash = Sha256(resp'[p].cookieRT)
                => resp'[p].rtMaxAge = tokens'[i].expiresAt - now]_vars

\* the routes under /users/
UserRoutes == {"/users/me", "/users/user"}

\* C37: the interceptor calls /auth/refresh only for a /users/ route that was
\* answered 401: a first answer other than 401, or any answer from
\* /auth/refresh, /auth/login, /auth/register or /auth/verify, is returned
\* with no call to /auth/refresh, and no request ever has a refresh call
\* unless its route is a /users/ route
C37_RefreshOnlyForUserRoutes ==
    /\ [](client.refreshCalls > 0 => client.through /\ client.url \in UserRoutes)
    /\ [][\A st \in Answers :
            ClientFirst(st) /\ (st # 401 \/ client.url \notin UserRoutes)
            => client'.at = "returned" /\ client'.status = st
               /\ client'.refreshCalls = 0 /\ client'.retries = 0]_vars

\* an auth route's 401 went through the interceptor and was returned with no
\* refresh call
C37_Witness ==
    /\ client.through
    /\ client.url \in {"/auth/refresh", "/auth/login", "/auth/register", "/auth/verify"}
    /\ client.at = "returned"
    /\ client.status = 401
    /\ client.refreshCalls = 0

\* C36: two refreshes that one client's interceptor sent with the same valid
\* secret while both were in flight (each found the record before either
\* rotated it, and no Logout revoked it) are both answered so that the
\* interceptor retries its request: neither 401 is returned to the page
C36_BothRefreshesRetried ==
    \A p, q \in Procs :
        (/\ p # q /\ Rotating(p) /\ Rotating(q)
         /\ req[p].rt = req[q].rt
         /\ ~tokens[existing[p]].revoked)
        => /\ AfterRefresh(resp[p].status) = "retry"
           /\ AfterRefresh(resp[q].status) = "retry"

====
